---- MODULE Spec2Model ----
(***************************************************************************)
(* The cover-canvas scene of components/hero/CoverHero.tsx (the second,    *)
(* current variant of the component, lines 283-801) as a state machine.    *)
(* The fabric.js canvas is a record; the React ref cells, the React state  *)
(* (ready, preset), the props (isDark) and the closure variables of the    *)
(* mount effect (disposed, cleanup) are variables.  Every handler is one   *)
(* action.  JavaScript numbers are exact rationals <<n, d>>.               *)
(***************************************************************************)
EXTENDS Integers, Sequences, FiniteSets, TLC

(***************************************************************************)
(* Bounds of the model.                                                    *)
(***************************************************************************)
\* the most image loads started and not yet removed by reset
MaxSprites == 2
\* Math.random() is drawn from {0/RandDen, ..., (RandDen-1)/RandDen}
RandDen == 2

(***************************************************************************)
(* JavaScript numbers, as exact rationals <<numerator, denominator>>.      *)
(***************************************************************************)
RECURSIVE GCD(_, _)
GCD(a, b) == IF b = 0 THEN a ELSE GCD(b, a % b)

Abs(x) == IF x < 0 THEN 0 - x ELSE x

Rat(n, d) ==
    LET s == IF d < 0 THEN 0 - 1 ELSE 1
        g == GCD(Abs(n), Abs(d))
    IN  <<(s * n) \div g, (s * d) \div g>>

R(n) == <<n, 1>>

\* common factors are divided out before multiplying, so that the products
\* stay small
RAdd(a, b) ==
    LET g == GCD(a[2], b[2])
    IN  Rat(a[1] * (b[2] \div g) + b[1] * (a[2] \div g), (a[2] \div g) * b[2])
RNeg(a) == <<0 - a[1], a[2]>>
RSub(a, b) == RAdd(a, RNeg(b))
RMul(a, b) ==
    LET x == Rat(a[1], b[2])
        y == Rat(b[1], a[2])
    IN  Rat(x[1] * y[1], x[2] * y[2])
RDiv(a, b) == RMul(a, Rat(b[2], b[1]))
RLe(a, b) ==
    LET g == GCD(a[2], b[2])
    IN  a[1] * (b[2] \div g) <= b[1] * (a[2] \div g)
RLt(a, b) == ~RLe(b, a)
\* Math.min / Math.max / Math.floor
RMin(a, b) == IF RLe(a, b) THEN a ELSE b
RMax(a, b) == IF RLe(a, b) THEN b ELSE a
RFloor(a) == R(a[1] \div a[2])
\* x || 1 : a falsy number (0, or an absent value read as 0) becomes 1
OrOne(a) == IF a[1] = 0 THEN R(1) ELSE a

(***************************************************************************)
(* Program constants.                                                      *)
(***************************************************************************)
PresetKeys == {"ux", "performance", "interaction"}

\* PRESETS[k].title / PRESETS[k].subtitle; the strings stand for the
\* Korean literals of the source, one distinct string per literal
PRESETS ==
    [k \in PresetKeys |-> [title |-> k \o ".title", subtitle |-> k \o ".subtitle"]]

TitleFill(dark) == IF dark THEN "rgba(255,255,255,0.96)" ELSE "rgba(18,22,31,0.95)"
SubtitleFill(dark) == IF dark THEN "rgba(255,255,255,0.8)" ELSE "rgba(18,22,31,0.72)"
ExportFill(dark) == IF dark THEN "#0B1020" ELSE "#F4F7FB"
TransparentFill == "rgba(0,0,0,0)"

MinCssWidth == 320
MinCssHeight == 360
MaxDpr == 2
PadXMin == 48
PadXPercent == 8
TopMin == 72
TopPercent == 18
TitleMaxWidth == 980
SubtitleMaxWidth == 900
SubtitleGap == 70
TargetPercent == 32
Margin == 24
ExportMultiplier == 2
InitBgSize == 2000
InitLabelLeft == 80
InitTitleTop == 120
InitSubtitleTop == 210
InitTitleWidth == 900
InitSubtitleWidth == 860
\* the size of a <canvas> element before anything sets it
ElDefaultWidth == 300
ElDefaultHeight == 150

(***************************************************************************)
(* Scene objects.  Every object is a record of the same shape; the ids     *)
(* are the identities the code compares (bg, t, s, exportBg, each img).    *)
(* One field is history the program does not keep: placedIn, the visible   *)
(* size an image was placed in.  Nothing the handlers compute reads it.    *)
(***************************************************************************)
None == "none"
BgId == "bg"
TitleId == "title"
SubtitleId == "subtitle"
ExportBgId == "exportBg"
SpriteNames == <<"img1", "img2", "img3", "img4">>
SpriteIds == {SpriteNames[i] : i \in 1..MaxSprites}

Range(s) == {s[i] : i \in DOMAIN s}

NoProps == [x \in {} |-> x]

\* new fabric.Rect({left: 0, top: 0, width, height, selectable: false,
\* evented: false}) with its fill set
NewRect(w, h, fill) ==
    [kind |-> "rect", left |-> R(0), top |-> R(0), width |-> w, height |-> h,
     scaleX |-> R(1), scaleY |-> R(1), angle |-> R(0), fill |-> fill,
     text |-> "", dimsFor |-> <<"", R(0)>>, origin |-> "left", selectable |-> FALSE,
     placedIn |-> <<R(0), R(0)>>]

\* new fabric.Textbox(text, {left, top, width, fill, editable: true, ...});
\* the constructor computes the text-block dimensions (initDimensions)
NewTextbox(text, left, top, width, fill) ==
    [kind |-> "textbox", left |-> left, top |-> top, width |-> width, height |-> R(0),
     scaleX |-> R(1), scaleY |-> R(1), angle |-> R(0), fill |-> fill,
     text |-> text, dimsFor |-> <<text, width>>, origin |-> "left", selectable |-> TRUE,
     placedIn |-> <<R(0), R(0)>>]

\* the fabric.Image that fabric.Image.fromURL hands to its callback: the
\* element's natural size, or 0 x 0 when the resource failed to decode
NewImage(w, h) ==
    [kind |-> "image", left |-> R(0), top |-> R(0), width |-> w, height |-> h,
     scaleX |-> R(1), scaleY |-> R(1), angle |-> R(0), fill |-> "",
     text |-> "", dimsFor |-> <<"", R(0)>>, origin |-> "left", selectable |-> TRUE,
     placedIn |-> <<R(0), R(0)>>]

(***************************************************************************)
(* The fabric.Canvas object and the fabric calls the component makes.      *)
(***************************************************************************)
\* before init has run there is no canvas object
NoCanvas ==
    [made |-> FALSE, disposed |-> FALSE, objects |-> <<>>, props |-> NoProps,
     active |-> None, width |-> R(0), height |-> R(0), zoom |-> R(1)]

\* new fabric.Canvas(el, {selection, preserveObjectStacking, renderOnAddRemove})
NewCanvas ==
    [made |-> TRUE, disposed |-> FALSE, objects |-> <<>>, props |-> NoProps,
     active |-> None, width |-> R(ElDefaultWidth), height |-> R(ElDefaultHeight),
     zoom |-> R(1)]

WithProps(props, id, p) ==
    [x \in (DOMAIN props) \cup {id} |-> IF x = id THEN p ELSE props[x]]

WithoutProps(props, id) == [x \in (DOMAIN props) \ {id} |-> props[x]]

RemoveFromArray(objs, id) == SelectSeq(objs, LAMBDA x : x # id)

\* c.add(obj): appended at the top of the stack
add(c, id, p) ==
    [c EXCEPT !.objects = Append(@, id), !.props = WithProps(@, id, p)]

\* c.sendToBack(obj)
sendToBack(c, id) ==
    [c EXCEPT !.objects = <<id>> \o RemoveFromArray(@, id)]

\* bringToFront that leaves the stack as it is
bringToFront_Noop(c, id) == c

\* c.bringToFront(obj)
bringToFront(c, id) ==
    [c EXCEPT !.objects = Append(RemoveFromArray(@, id), id)]

\* c.remove(obj): an object that is not on the canvas is left alone; removing
\* the active object clears the selection
remove(c, id) ==
    IF id \notin Range(c.objects) THEN c
    ELSE [c EXCEPT !.objects = RemoveFromArray(@, id),
                   !.props = WithoutProps(@, id),
                   !.active = IF @ = id THEN None ELSE @]

discardActiveObject(c) == [c EXCEPT !.active = None]

\* setActiveObject that selects nothing
setActiveObject_Noop(c, id) == c

setActiveObject(c, id) == [c EXCEPT !.active = id]

\* c.dispose(): the canvas drops its objects and its listeners
dispose(c) ==
    [c EXCEPT !.disposed = TRUE, !.objects = <<>>, !.props = NoProps]

\* textbox.initDimensions(): the text block is measured for the current text
\* and width
initDimensions(p) == [p EXCEPT !.dimsFor = <<p.text, p.width>>]

\* obj.set({...}) of a textbox: text and width are dimension-affecting
\* properties, so fabric re-measures the block
SetLabel(c, id, p) == [c EXCEPT !.props[id] = initDimensions(p)]

(***************************************************************************)
(* Layout: getVisibleCanvasSize, placeTextObjects, fitCanvasToWrap.        *)
(***************************************************************************)
\* getVisibleCanvasSize(canvas): the backing-store size over the zoom
getVisibleCanvasSize(c) ==
    LET zoom == OrOne(c.zoom)
    IN  [width |-> RDiv(c.width, zoom), height |-> RDiv(c.height, zoom)]

Percent(x, pct) == RMul(x, Rat(pct, 100))

\* a text placement that moves the labels from where they are
placeTextObjects_Incremental(c) ==
    LET vis == getVisibleCanvasSize(c)
        cw == vis.width
        ch == vis.height
        padX == RMax(R(PadXMin), RFloor(Percent(cw, PadXPercent)))
        top == RMax(R(TopMin), RFloor(Percent(ch, TopPercent)))
        inner == RFloor(RSub(cw, RMul(padX, R(2))))
        t == [c.props[TitleId] EXCEPT
                 !.left = RAdd(@, padX), !.top = top,
                 !.width = RMin(R(TitleMaxWidth), inner)]
        s == [c.props[SubtitleId] EXCEPT
                 !.left = RAdd(@, padX), !.top = RAdd(top, R(SubtitleGap)),
                 !.width = RMin(R(SubtitleMaxWidth), inner)]
    IN  IF cw[1] = 0 \/ ch[1] = 0 THEN c
        ELSE SetLabel(SetLabel(c, TitleId, t), SubtitleId, s)

\* a text placement computed from the backing-store size
placeTextObjects_Physical(c) ==
    LET cw == c.width
        ch == c.height
        padX == RMax(R(PadXMin), RFloor(Percent(cw, PadXPercent)))
        top == RMax(R(TopMin), RFloor(Percent(ch, TopPercent)))
        inner == RFloor(RSub(cw, RMul(padX, R(2))))
        t == [c.props[TitleId] EXCEPT
                 !.left = padX, !.top = top,
                 !.width = RMin(R(TitleMaxWidth), inner)]
        s == [c.props[SubtitleId] EXCEPT
                 !.left = padX, !.top = RAdd(top, R(SubtitleGap)),
                 !.width = RMin(R(SubtitleMaxWidth), inner)]
    IN  IF cw[1] = 0 \/ ch[1] = 0 THEN c
        ELSE SetLabel(SetLabel(c, TitleId, t), SubtitleId, s)

\* placeTextObjects(): the canonical left/top/width of both labels for the
\* current visible size
placeTextObjects(c) ==
    LET vis == getVisibleCanvasSize(c)
        cw == vis.width
        ch == vis.height
        padX == RMax(R(PadXMin), RFloor(Percent(cw, PadXPercent)))
        top == RMax(R(TopMin), RFloor(Percent(ch, TopPercent)))
        inner == RFloor(RSub(cw, RMul(padX, R(2))))
        t == [c.props[TitleId] EXCEPT
                 !.left = padX, !.top = top,
                 !.width = RMin(R(TitleMaxWidth), inner)]
        s == [c.props[SubtitleId] EXCEPT
                 !.left = padX, !.top = RAdd(top, R(SubtitleGap)),
                 !.width = RMin(R(SubtitleMaxWidth), inner)]
    IN  IF cw[1] = 0 \/ ch[1] = 0 THEN c
        ELSE SetLabel(SetLabel(c, TitleId, t), SubtitleId, s)

\* Math.min(window.devicePixelRatio || 1, 2)
CappedDpr(devicePixelRatio) == RMin(OrOne(devicePixelRatio), R(MaxDpr))

\* fitCanvasToWrap(): backing store and zoom from the container's layout
\* rectangle and the device pixel ratio, then the Background cover and the
\* text placement
fitCanvasToWrap(c, hasWrap, rect, devicePixelRatio) ==
    LET dpr == CappedDpr(devicePixelRatio)
        wCss == RMax(R(MinCssWidth), RFloor(rect[1]))
        hCss == RMax(R(MinCssHeight), RFloor(rect[2]))
        nextWidth == RFloor(RMul(wCss, dpr))
        nextHeight == RFloor(RMul(hCss, dpr))
        sized == [c EXCEPT !.width = nextWidth, !.height = nextHeight, !.zoom = dpr,
                           !.props[BgId].left = R(0), !.props[BgId].top = R(0),
                           !.props[BgId].width = nextWidth,
                           !.props[BgId].height = nextHeight]
    IN  IF hasWrap THEN placeTextObjects(sized) ELSE c

\* the calls placeTextObjects makes when the visible size is vis
PlaceCalls(vis) ==
    IF vis.width[1] = 0 \/ vis.height[1] = 0
    THEN <<>>
    ELSE <<"title.set", "subtitle.set", "title.initDimensions",
           "subtitle.initDimensions", "requestRenderAll">>

\* the calls fitCanvasToWrap makes on canvas c: the element's width and
\* height are assigned only when they differ, the rest on every call
FitCalls(c, hasWrap, rect, devicePixelRatio) ==
    LET dpr == CappedDpr(devicePixelRatio)
        nextWidth == RFloor(RMul(RMax(R(MinCssWidth), RFloor(rect[1])), dpr))
        nextHeight == RFloor(RMul(RMax(R(MinCssHeight), RFloor(rect[2])), dpr))
    IN  IF ~hasWrap THEN <<>>
        ELSE (IF c.width # nextWidth THEN <<"el.width=">> ELSE <<>>)
             \o (IF c.height # nextHeight THEN <<"el.height=">> ELSE <<>>)
             \o <<"el.style.width=", "el.style.height=", "c.setWidth",
                  "c.setHeight", "c.setZoom", "bg.set">>
             \o PlaceCalls([width |-> RDiv(nextWidth, OrOne(dpr)),
                            height |-> RDiv(nextHeight, OrOne(dpr))])

(***************************************************************************)
(* The handlers, as functions of the canvas.                               *)
(***************************************************************************)
\* init, after the font gate: the canvas, the Background under two labels,
\* then the first fit
SceneBeforeFit(dark) ==
    LET c0 == NewCanvas
        c1 == sendToBack(add(c0, BgId,
                             NewRect(R(InitBgSize), R(InitBgSize), TransparentFill)),
                         BgId)
        c2 == add(c1, TitleId,
                  NewTextbox(PRESETS["ux"].title, R(InitLabelLeft), R(InitTitleTop),
                             R(InitTitleWidth), TitleFill(dark)))
        c3 == add(c2, SubtitleId,
                  NewTextbox(PRESETS["ux"].subtitle, R(InitLabelLeft),
                             R(InitSubtitleTop), R(InitSubtitleWidth),
                             SubtitleFill(dark)))
    IN  c3

BuildScene(hasWrap, rect, devicePixelRatio, dark) ==
    fitCanvasToWrap(SceneBeforeFit(dark), hasWrap, rect, devicePixelRatio)

\* new fabric.Canvas(el, {renderOnAddRemove: true}): add, remove and the
\* stacking calls each request a render of their own
renderOnAddRemove == TRUE

OnAddRemove == IF renderOnAddRemove THEN <<"renderOnAddRemove">> ELSE <<>>

\* the calls init makes after the await, in order
InitCalls(hasWrap, rect, devicePixelRatio, dark) ==
    <<"new fabric.Canvas", "canvasRef=", "new fabric.Rect", "c.add(bg)">>
    \o OnAddRemove \o <<"c.sendToBack(bg)">> \o OnAddRemove
    \o <<"bgRef=", "new fabric.Textbox(title)", "new fabric.Textbox(subtitle)",
         "c.add(title)">>
    \o OnAddRemove \o <<"c.add(subtitle)">> \o OnAddRemove
    \o <<"titleRef=", "subtitleRef=", "layoutRef=", "fitCanvasToWrap">>
    \o FitCalls(SceneBeforeFit(dark), hasWrap, rect, devicePixelRatio)
    \o <<"addEventListener", "setReady", "cleanup=">>

\* the calls exportPNG makes past its guard, in order
ExportCalls ==
    <<"c.add(exportBg)">> \o OnAddRemove
    \o <<"c.sendToBack(exportBg)">> \o OnAddRemove
    \o <<"c.discardActiveObject", "requestRenderAll", "c.toDataURL",
         "c.remove(exportBg)">>
    \o OnAddRemove \o <<"requestRenderAll", "a.click">>

\* applyPreset that also re-runs the text placement
PresetText_Relayout(c, nextPreset) ==
    LET t == [c.props[TitleId] EXCEPT !.text = PRESETS[nextPreset].title]
        s == [c.props[SubtitleId] EXCEPT !.text = PRESETS[nextPreset].subtitle]
    IN  placeTextObjects(SetLabel(SetLabel(c, TitleId, t), SubtitleId, s))

\* applyPreset that sets the title and leaves the subtitle's text
PresetText_TitleOnly(c, nextPreset) ==
    LET t == [c.props[TitleId] EXCEPT !.text = PRESETS[nextPreset].title]
    IN  SetLabel(SetLabel(c, TitleId, t), SubtitleId, c.props[SubtitleId])

\* applyPreset, past its guard: t.set("text", ...), s.set("text", ...),
\* initDimensions on both
PresetText(c, nextPreset) ==
    LET t == [c.props[TitleId] EXCEPT !.text = PRESETS[nextPreset].title]
        s == [c.props[SubtitleId] EXCEPT !.text = PRESETS[nextPreset].subtitle]
    IN  SetLabel(SetLabel(c, TitleId, t), SubtitleId, s)

\* a theme effect that also re-runs the text placement
ThemeFill_Relayout(c, dark) ==
    placeTextObjects([c EXCEPT !.props[TitleId].fill = TitleFill(dark),
                               !.props[SubtitleId].fill = SubtitleFill(dark)])

\* the [isDark] effect, past its guard: the two fills
ThemeFill(c, dark) ==
    [c EXCEPT !.props[TitleId].fill = TitleFill(dark),
              !.props[SubtitleId].fill = SubtitleFill(dark)]

\* reset keeps the three objects it compares every object against
IsProtected(id) == id \in {BgId, TitleId, SubtitleId}

RECURSIVE RemoveAll(_, _)
RemoveAll(c, ids) ==
    IF ids = <<>> THEN c ELSE RemoveAll(remove(c, Head(ids)), Tail(ids))

\* reset that does not call layoutRef.current
ResetScene_NoLayout(c, dark, hasLayout) ==
    LET doomed == SelectSeq(c.objects, LAMBDA id : ~IsProtected(id))
        c1 == RemoveAll(c, doomed)
        t == [c1.props[TitleId] EXCEPT
                 !.text = PRESETS["ux"].title, !.angle = R(0),
                 !.scaleX = R(1), !.scaleY = R(1), !.fill = TitleFill(dark)]
        s == [c1.props[SubtitleId] EXCEPT
                 !.text = PRESETS["ux"].subtitle, !.angle = R(0),
                 !.scaleX = R(1), !.scaleY = R(1), !.fill = SubtitleFill(dark)]
    IN  discardActiveObject(SetLabel(SetLabel(c1, TitleId, t), SubtitleId, s))

\* reset, past its guard; layout is layoutRef.current (placeTextObjects)
ResetScene(c, dark, hasLayout) ==
    LET doomed == SelectSeq(c.objects, LAMBDA id : ~IsProtected(id))
        c1 == RemoveAll(c, doomed)
        t == [c1.props[TitleId] EXCEPT
                 !.text = PRESETS["ux"].title, !.angle = R(0),
                 !.scaleX = R(1), !.scaleY = R(1), !.fill = TitleFill(dark)]
        s == [c1.props[SubtitleId] EXCEPT
                 !.text = PRESETS["ux"].subtitle, !.angle = R(0),
                 !.scaleX = R(1), !.scaleY = R(1), !.fill = SubtitleFill(dark)]
        c2 == discardActiveObject(SetLabel(SetLabel(c1, TitleId, t), SubtitleId, s))
    IN  IF hasLayout THEN placeTextObjects(c2) ELSE c2

\* exportPNG that forgets c.remove(exportBg)
ExportScene_KeepsRect(c, dark) ==
    LET vis == getVisibleCanvasSize(c)
        c1 == add(c, ExportBgId, NewRect(vis.width, vis.height, ExportFill(dark)))
        c2 == discardActiveObject(sendToBack(c1, ExportBgId))
        frame == [taken |-> TRUE, objects |-> c2.objects, props |-> c2.props,
                  active |-> c2.active, multiplier |-> ExportMultiplier]
    IN  [canvas |-> c2, frame |-> frame]

\* exportPNG whose rectangle covers the backing store, not the visible size
ExportScene_Physical(c, dark) ==
    LET c1 == add(c, ExportBgId, NewRect(c.width, c.height, ExportFill(dark)))
        c2 == discardActiveObject(sendToBack(c1, ExportBgId))
        frame == [taken |-> TRUE, objects |-> c2.objects, props |-> c2.props,
                  active |-> c2.active, multiplier |-> ExportMultiplier]
    IN  [canvas |-> remove(c2, ExportBgId), frame |-> frame]

\* exportPNG, past its guard: the canvas afterwards and the captured frame
ExportScene(c, dark) ==
    LET vis == getVisibleCanvasSize(c)
        c1 == add(c, ExportBgId, NewRect(vis.width, vis.height, ExportFill(dark)))
        c2 == discardActiveObject(sendToBack(c1, ExportBgId))
        frame == [taken |-> TRUE, objects |-> c2.objects, props |-> c2.props,
                  active |-> c2.active, multiplier |-> ExportMultiplier]
    IN  [canvas |-> remove(c2, ExportBgId), frame |-> frame]

NoFrame ==
    [taken |-> FALSE, objects |-> <<>>, props |-> NoProps, active |-> None,
     multiplier |-> 0]

(***************************************************************************)
(* Image placement: the callback of fabric.Image.fromURL.                  *)
(***************************************************************************)
\* randomInRange without Math.max: an inverted range is sampled as it is
randomInRange_Inverted(min, max, r) == RAdd(RMul(r, RSub(max, min)), min)

\* randomInRange(min, max) with Math.random() = r
randomInRange(min, max, r) == RAdd(RMul(r, RSub(RMax(min, max), min)), min)

\* a scale without the cap at 1: small images are blown up to the target
SpriteScale_Upscales(vis, iw, ih) ==
    RMin(RDiv(Percent(vis.width, TargetPercent), iw),
         RDiv(Percent(vis.height, TargetPercent), ih))

\* Math.min(maxW / iw, maxH / ih, 1)
SpriteScale(vis, iw, ih) ==
    RMin(RMin(RDiv(Percent(vis.width, TargetPercent), iw),
              RDiv(Percent(vis.height, TargetPercent), ih)),
         R(1))

\* a placement that leaves no margin
PlacedImage_NoMargin(img, vis, rx, ry) ==
    LET iw == OrOne(img.width)
        ih == OrOne(img.height)
        scale == SpriteScale(vis, iw, ih)
        renderedW == RMul(iw, scale)
        renderedH == RMul(ih, scale)
        minLeft == RDiv(renderedW, R(2))
        maxLeft == RSub(vis.width, RDiv(renderedW, R(2)))
        minTop == RDiv(renderedH, R(2))
        maxTop == RSub(vis.height, RDiv(renderedH, R(2)))
    IN  [img EXCEPT !.left = randomInRange(minLeft, maxLeft, rx),
                    !.top = randomInRange(minTop, maxTop, ry),
                    !.origin = "center", !.scaleX = scale, !.scaleY = scale,
                    !.placedIn = <<vis.width, vis.height>>]

\* the properties img.set({...}) gives the image for visible size vis and
\* the two random draws rx, ry
PlacedImage(img, vis, rx, ry) ==
    LET iw == OrOne(img.width)
        ih == OrOne(img.height)
        scale == SpriteScale(vis, iw, ih)
        renderedW == RMul(iw, scale)
        renderedH == RMul(ih, scale)
        minLeft == RAdd(RDiv(renderedW, R(2)), R(Margin))
        maxLeft == RSub(RSub(vis.width, RDiv(renderedW, R(2))), R(Margin))
        minTop == RAdd(RDiv(renderedH, R(2)), R(Margin))
        maxTop == RSub(RSub(vis.height, RDiv(renderedH, R(2))), R(Margin))
    IN  [img EXCEPT !.left = randomInRange(minLeft, maxLeft, rx),
                    !.top = randomInRange(minTop, maxTop, ry),
                    !.origin = "center", !.scaleX = scale, !.scaleY = scale,
                    !.placedIn = <<vis.width, vis.height>>]

\* the identity of the next image object
NewSpriteId(c) ==
    SpriteNames[CHOOSE i \in 1..Len(SpriteNames) :
                    /\ SpriteNames[i] \notin Range(c.objects)
                    /\ \A j \in 1..(i - 1) : SpriteNames[j] \in Range(c.objects)]

\* the callback: c is the canvas addImageToCanvas read from canvasRef when it
\* was called; tRef and sRef are titleRef.current and subtitleRef.current now
OnImageLoaded(c, loaded, rx, ry, tRef, sRef) ==
    IF loaded.isNull THEN c
    ELSE LET id == NewSpriteId(c)
             c1 == add(c, id, PlacedImage(loaded.img, getVisibleCanvasSize(c), rx, ry))
             c2 == IF tRef THEN bringToFront(c1, TitleId) ELSE c1
             c3 == IF sRef THEN bringToFront(c2, SubtitleId) ELSE c2
         IN  setActiveObject(c3, id)

(***************************************************************************)
(* The environment the model draws from.                                   *)
(***************************************************************************)
\* the container's layout rectangle and window.devicePixelRatio: a collapsed
\* container with no ratio reported, and a fractional 800.5 x 600 at ratio 3
Viewports ==
    {[rect |-> <<R(0), R(0)>>, dpr |-> R(0)],
     [rect |-> <<Rat(1601, 2), R(600)>>, dpr |-> R(3)]}

\* the asset catalog: the natural size of each image resource
AssetIds == {"photo", "icon", "tall", "wide", "dot"}
Assets ==
    [a \in AssetIds |->
        CASE a = "photo" -> [width |-> R(4000), height |-> R(3000)]
          [] a = "icon" -> [width |-> R(40), height |-> R(30)]
          [] a = "tall" -> [width |-> R(3), height |-> R(5000)]
          [] a = "wide" -> [width |-> R(5000), height |-> R(7)]
          [] OTHER -> [width |-> R(1), height |-> R(1)]]
\* the resource the image buttons of Spec place
SceneAssets == {"photo"}

\* the values Math.random() takes
Draws == {Rat(k, RandDen) : k \in 0..(RandDen - 1)}

\* the two draws of one placement (left, then top) in Spec: the far end of
\* the range on one axis, the near end on the other
DrawPairs ==
    {<<Rat(RandDen - 1, RandDen), R(0)>>}

\* what fabric.Image.fromURL passes to the callback: always an image object,
\* of size 0 x 0 when the resource failed to decode
fromURL(src, ok) ==
    [isNull |-> FALSE,
     img |-> IF ok THEN NewImage(Assets[src].width, Assets[src].height)
             ELSE NewImage(R(0), R(0))]

\* where the user drags a label or an image to, and how a label is scaled
\* and rotated by its handles
DragTo == <<R(10), R(20)>>
DragAngle == R(15)
DragScale == Rat(3, 2)

(***************************************************************************)
(* State.                                                                  *)
(***************************************************************************)
VARIABLES
    disposed,          \* the mount effect's closure variable
    cleanupSet,        \* the closure variable cleanup holds the teardown
    pc,                \* init: "await" at the font gate, then "done"
    gate,              \* the two loadFontWithTimeout calls
    isDark,            \* the prop of the current render
    initIsDark,        \* the isDark init's closure captured (FALSE once init
                       \* has returned and the closure is gone)
    preset,            \* React state
    ready,             \* React state
    canvasRef, bgRef, titleRef, subtitleRef, layoutRef,   \* ref cells: set?
    canvas,            \* the fabric.Canvas init created
    listeners,         \* window "resize" subscriptions of fitCanvasToWrap
    wrapRect,          \* the container's layout rectangle
    devicePixelRatio,  \* window.devicePixelRatio
    pending,           \* image loads in flight, per resource
    downloaded,        \* the frame the last event handed to the download
    lastOp,            \* the last event handled
    sample,            \* randomInRange applied to bounds drawn from a set
    calls,             \* the fabric and DOM calls the last run of init, of
                       \* fitCanvasToWrap or of exportPNG made, in order
    showAbout,         \* the page's React state: About shown (else Hero)
    wheelLockRef,      \* the page's wheel lock
    wheelAccumRef,     \* the page's accumulated deltaY
    wheelTimers        \* the page's pending window.setTimeout delays

vars ==
    <<disposed, cleanupSet, pc, gate, isDark, initIsDark, preset, ready,
      canvasRef, bgRef, titleRef, subtitleRef, layoutRef, canvas, listeners,
      wrapRect, devicePixelRatio, pending, downloaded, lastOp, sample, calls,
      showAbout, wheelLockRef, wheelAccumRef, wheelTimers>>

refs == <<canvasRef, bgRef, titleRef, subtitleRef, layoutRef>>
mountVars == <<disposed, cleanupSet, pc, gate, ready, listeners>>
envVars == <<wrapRect, devicePixelRatio>>
pageVars == <<showAbout, wheelLockRef, wheelAccumRef, wheelTimers>>

Fonts == 1..2

NoSample == [taken |-> FALSE, min |-> R(0), max |-> R(0), r |-> R(0), value |-> R(0)]

\* canvasWrapRef.current is set while the component is mounted
canvasWrapRef == ~disposed

\* the scene is live from the end of init until unmount
Live == canvasRef

\* the page after its first render
InitPage ==
    /\ showAbout = FALSE
    /\ wheelLockRef = FALSE
    /\ wheelAccumRef = 0
    /\ wheelTimers = <<>>

Init ==
    /\ InitPage
    /\ disposed = FALSE
    /\ cleanupSet = FALSE
    /\ pc = "await"
    /\ gate \in {[f \in Fonts |-> "loading"], [f \in Fonts |-> "settled"]}
    /\ isDark \in BOOLEAN
    /\ initIsDark = isDark
    /\ preset = "ux"
    /\ ready = FALSE
    /\ canvasRef = FALSE /\ bgRef = FALSE /\ titleRef = FALSE
    /\ subtitleRef = FALSE /\ layoutRef = FALSE
    /\ canvas = NoCanvas
    /\ listeners = 0
    /\ \E v \in Viewports : wrapRect = v.rect /\ devicePixelRatio = v.dpr
    /\ pending = [a \in AssetIds |-> 0]
    /\ downloaded = NoFrame
    /\ lastOp = "mount"
    /\ sample = NoSample
    /\ calls = <<>>

(***************************************************************************)
(* Mount and unmount.                                                      *)
(***************************************************************************)
\* how document.fonts.load(rule) ends when it does end
FontOutcomes == {"resolved", "rejected"}

\* a race in which a rejected load is not caught: the rejection is the
\* race's, and Promise.all's
SwallowedLoad_NoCatch(outcome) == IF outcome = "rejected" THEN "failed" ELSE "settled"

\* .then(() => undefined).catch(() => undefined): a load that resolves and a
\* load that rejects both settle the race with undefined
SwallowedLoad(outcome) == "settled"

\* document.fonts.load(rule) resolves or rejects: then/catch make both
\* undefined and the race settles
FontLoadSettles(f) ==
    /\ gate[f] = "loading"
    /\ \E outcome \in FontOutcomes :
          /\ gate' = [gate EXCEPT ![f] = SwallowedLoad(outcome)]
          /\ lastOp' = outcome
          /\ UNCHANGED pageVars
    /\ calls' = <<>>
    /\ downloaded' = NoFrame
    /\ UNCHANGED <<sample, disposed, cleanupSet, pc, isDark, initIsDark, preset, ready,
                   refs, canvas, listeners, envVars, pending>>

\* the 1200 ms timer of the race fires first
FontTimeout(f) ==
    /\ gate[f] = "loading"
    /\ gate' = [gate EXCEPT ![f] = "settled"]
    /\ lastOp' = "timeout"
    /\ UNCHANGED pageVars
    /\ calls' = <<>>
    /\ downloaded' = NoFrame
    /\ UNCHANGED <<sample, disposed, cleanupSet, pc, isDark, initIsDark, preset, ready,
                   refs, canvas, listeners, envVars, pending>>

\* window.addEventListener("resize", fitCanvasToWrap) and
\* window.removeEventListener("resize", fitCanvasToWrap), on the number of
\* subscriptions of that function
removeEventListener_Leak(n) == n
addEventListener(n) == IF n = 0 THEN 1 ELSE n
removeEventListener(n) == IF n > 0 THEN n - 1 ELSE 0

\* init without the disposed check after the await
InitProceeds_Always == TRUE

\* if (disposed) return
InitProceeds == ~disposed

\* a gate that lets init go on when either call has settled
GateSettled_Any == \E f \in Fonts : gate[f] = "settled"

\* await Promise.all([...]): both loadFontWithTimeout calls have settled
GateSettled == \A f \in Fonts : gate[f] = "settled"

\* init resumes after await Promise.all([...])
InitResume ==
    /\ pc = "await"
    /\ GateSettled
    /\ pc' = "done"
    /\ lastOp' = "init"
    /\ UNCHANGED pageVars
    /\ calls' = IF InitProceeds THEN InitCalls(canvasWrapRef, wrapRect, devicePixelRatio,
                                                    initIsDark)
                ELSE <<>>
    /\ downloaded' = NoFrame
    /\ IF InitProceeds
       THEN /\ canvas' = BuildScene(canvasWrapRef, wrapRect, devicePixelRatio,
                                    initIsDark)
            /\ canvasRef' = TRUE /\ bgRef' = TRUE /\ titleRef' = TRUE
            /\ subtitleRef' = TRUE /\ layoutRef' = TRUE
            /\ listeners' = addEventListener(listeners)
            /\ ready' = TRUE
            /\ cleanupSet' = TRUE
       ELSE UNCHANGED <<canvas, refs, listeners, ready, cleanupSet>>
    /\ initIsDark' = FALSE
    /\ UNCHANGED <<sample, disposed, gate, isDark, preset, envVars, pending>>

\* the effect's cleanup: disposed = true; cleanup?.()
Unmount ==
    /\ ~disposed
    /\ disposed' = TRUE
    /\ lastOp' = "unmount"
    /\ UNCHANGED pageVars
    /\ calls' = <<>>
    /\ downloaded' = NoFrame
    /\ IF cleanupSet
       THEN /\ listeners' = removeEventListener(listeners)
            /\ layoutRef' = FALSE
            /\ canvas' = dispose(canvas)
            /\ canvasRef' = FALSE /\ bgRef' = FALSE /\ titleRef' = FALSE
            /\ subtitleRef' = FALSE
       ELSE UNCHANGED <<canvas, refs, listeners>>
    /\ UNCHANGED <<sample, cleanupSet, pc, gate, isDark, initIsDark, preset, ready,
                   envVars, pending>>

\* the window fires "resize" with the container laid out as v
Resize(v) ==
    /\ lastOp' = "resize"
    /\ UNCHANGED pageVars
    /\ wrapRect' = v.rect
    /\ devicePixelRatio' = v.dpr
    /\ calls' = IF listeners > 0
                THEN FitCalls(canvas, canvasWrapRef, v.rect, v.dpr)
                ELSE <<>>
    /\ downloaded' = NoFrame
    /\ canvas' = IF listeners > 0
                 THEN fitCanvasToWrap(canvas, canvasWrapRef, v.rect, v.dpr)
                 ELSE canvas
    /\ UNCHANGED <<sample, mountVars, isDark, initIsDark, preset, refs, pending>>

(***************************************************************************)
(* The public operations.                                                  *)
(***************************************************************************)
\* setPreset(next): React drops a state update of an unmounted component
SetPresetState(next) == IF disposed THEN preset ELSE next

\* applyPreset(nextPreset)
applyPreset(nextPreset) ==
    /\ lastOp' = "applyPreset"
    /\ UNCHANGED pageVars
    /\ preset' = SetPresetState(nextPreset)
    /\ canvas' = IF canvasRef /\ titleRef /\ subtitleRef
                 THEN PresetText(canvas, nextPreset)
                 ELSE canvas
    /\ calls' = <<>>
    /\ downloaded' = NoFrame
    /\ UNCHANGED <<sample, mountVars, isDark, initIsDark, refs, envVars, pending>>

\* the theme controller flips isDark; the [isDark] effect runs
ThemeChange ==
    /\ isDark' = ~isDark
    /\ canvas' = IF canvasRef /\ titleRef /\ subtitleRef
                 THEN ThemeFill(canvas, isDark')
                 ELSE canvas
    /\ lastOp' = "theme"
    /\ UNCHANGED pageVars
    /\ calls' = <<>>
    /\ downloaded' = NoFrame
    /\ UNCHANGED <<sample, mountVars, initIsDark, preset, refs, envVars, pending>>

\* reset()
reset ==
    /\ lastOp' = "reset"
    /\ UNCHANGED pageVars
    /\ IF canvasRef /\ bgRef /\ titleRef /\ subtitleRef
       THEN /\ canvas' = ResetScene(canvas, isDark, layoutRef)
            /\ preset' = SetPresetState("ux")
       ELSE UNCHANGED <<canvas, preset>>
    /\ calls' = <<>>
    /\ downloaded' = NoFrame
    /\ UNCHANGED <<sample, mountVars, isDark, initIsDark, refs, envVars, pending>>

\* exportPNG()
exportPNG ==
    /\ lastOp' = "exportPNG"
    /\ UNCHANGED pageVars
    /\ IF canvasRef
       THEN /\ canvas' = ExportScene(canvas, isDark).canvas
            /\ downloaded' = ExportScene(canvas, isDark).frame
       ELSE /\ canvas' = canvas
            /\ downloaded' = NoFrame
    /\ calls' = IF canvasRef THEN ExportCalls ELSE <<>>
    /\ UNCHANGED <<sample, mountVars, isDark, initIsDark, preset, refs, envVars, pending>>

RECURSIVE SumOver(_, _)
SumOver(f, S) ==
    IF S = {} THEN 0
    ELSE LET x == CHOOSE y \in S : TRUE IN f[x] + SumOver(f, S \ {x})

PendingTotal == SumOver(pending, AssetIds)

SpritesOn(c) == {id \in Range(c.objects) : c.props[id].kind = "image"}

\* addImageToCanvas(imageSrc): the load starts; its callback keeps the canvas
\* this call read from canvasRef
addImageToCanvas(src) ==
    /\ Cardinality(SpritesOn(canvas)) + PendingTotal < MaxSprites
    /\ pending' = IF canvasRef THEN [pending EXCEPT ![src] = @ + 1] ELSE pending
    /\ lastOp' = "addImageToCanvas"
    /\ UNCHANGED pageVars
    /\ calls' = <<>>
    /\ downloaded' = NoFrame
    /\ UNCHANGED <<sample, mountVars, isDark, initIsDark, preset, refs, envVars, canvas>>

\* a load completes (decoded or not) and fabric calls the callback
ImageLoaded(src, ok, rx, ry) ==
    /\ pending[src] > 0
    /\ pending' = [pending EXCEPT ![src] = @ - 1]
    /\ canvas' = OnImageLoaded(canvas, fromURL(src, ok), rx, ry, titleRef, subtitleRef)
    /\ lastOp' = "imageLoaded"
    /\ UNCHANGED pageVars
    /\ calls' = <<>>
    /\ downloaded' = NoFrame
    /\ UNCHANGED <<sample, mountVars, isDark, initIsDark, preset, refs, envVars>>

(***************************************************************************)
(* What the user does on the canvas with the pointer.                      *)
(***************************************************************************)
Interactive == canvas.made /\ ~canvas.disposed

\* a click on an object, or on empty canvas (None)
UserSelect(id) ==
    /\ Interactive
    /\ \/ id = None
       \/ id \in Range(canvas.objects) /\ canvas.props[id].selectable
    /\ canvas' = [canvas EXCEPT !.active = id]
    /\ lastOp' = "user"
    /\ UNCHANGED pageVars
    /\ calls' = <<>>
    /\ downloaded' = NoFrame
    /\ UNCHANGED <<sample, mountVars, isDark, initIsDark, preset, refs, envVars, pending>>

\* the user drags, scales and rotates the title and then the subtitle by
\* their handles; the subtitle stays selected
UserTransformLabels ==
    /\ Interactive
    /\ canvas' = [canvas EXCEPT !.active = SubtitleId,
                                !.props[TitleId].left = DragTo[1],
                                !.props[TitleId].top = DragTo[2],
                                !.props[TitleId].scaleX = DragScale,
                                !.props[TitleId].scaleY = DragScale,
                                !.props[TitleId].angle = DragAngle,
                                !.props[SubtitleId].left = DragTo[1],
                                !.props[SubtitleId].top = DragTo[2],
                                !.props[SubtitleId].scaleX = DragScale,
                                !.props[SubtitleId].scaleY = DragScale,
                                !.props[SubtitleId].angle = DragAngle]
    /\ lastOp' = "user"
    /\ UNCHANGED pageVars
    /\ calls' = <<>>
    /\ downloaded' = NoFrame
    /\ UNCHANGED <<sample, mountVars, isDark, initIsDark, preset, refs, envVars, pending>>

Next ==
    \/ \E f \in Fonts : FontLoadSettles(f)
    \/ \E f \in Fonts : FontTimeout(f)
    \/ InitResume
    \/ Unmount
    \/ \E v \in Viewports : Resize(v)
    \/ \E k \in PresetKeys : applyPreset(k)
    \/ ThemeChange
    \/ reset
    \/ exportPNG
    \/ \E src \in SceneAssets : addImageToCanvas(src)
    \/ \E src \in SceneAssets, d \in DrawPairs : ImageLoaded(src, TRUE, d[1], d[2])
    \/ \E id \in {None, TitleId, SubtitleId} \cup SpriteIds : UserSelect(id)
    \/ UserTransformLabels

Spec == Init /\ [][Next]_vars

(***************************************************************************)
(* Placement on its own: a live scene fitted to one of PlaceViewports with  *)
(* one image load in flight, the load completing under every pair of      *)
(* draws, and randomInRange applied to bounds drawn from SampleBounds.     *)
(***************************************************************************)
\* the smallest container, the fractional one at ratio 3, a fractional visible
\* size at ratio 3/2, and the largest one
PlaceViewports ==
    Viewports \cup
    {[rect |-> <<R(333), R(777)>>, dpr |-> Rat(3, 2)],
     [rect |-> <<R(4000), R(3000)>>, dpr |-> R(1)]}

\* lower and upper bounds handed to randomInRange, inverted pairs included
SampleBounds == {R(0), Rat(49, 2), Rat(301, 2)}

InitPlace ==
    /\ InitPage
    /\ disposed = FALSE
    /\ cleanupSet = TRUE
    /\ pc = "done"
    /\ gate = [f \in Fonts |-> "settled"]
    /\ isDark \in BOOLEAN
    /\ initIsDark = FALSE
    /\ preset = "ux"
    /\ ready = TRUE
    /\ canvasRef = TRUE /\ bgRef = TRUE /\ titleRef = TRUE
    /\ subtitleRef = TRUE /\ layoutRef = TRUE
    /\ \E v \in PlaceViewports :
          /\ wrapRect = v.rect
          /\ devicePixelRatio = v.dpr
          /\ canvas = BuildScene(TRUE, v.rect, v.dpr, isDark)
    /\ listeners = 1
    /\ \E src \in AssetIds : pending = [a \in AssetIds |-> IF a = src THEN 1 ELSE 0]
    /\ downloaded = NoFrame
    /\ lastOp = "addImageToCanvas"
    /\ sample = NoSample
    /\ calls = <<>>

\* randomInRange(min, max) with Math.random() = r, on its own
SampleRange(min, max, r) ==
    /\ sample' = [taken |-> TRUE, min |-> min, max |-> max, r |-> r,
                  value |-> randomInRange(min, max, r)]
    /\ lastOp' = "sample"
    /\ UNCHANGED pageVars
    /\ calls' = <<>>
    /\ downloaded' = NoFrame
    /\ UNCHANGED <<mountVars, isDark, initIsDark, preset, refs, envVars, canvas,
                   pending>>

NextPlace ==
    \/ \E src \in AssetIds, rx \in Draws, ry \in Draws : ImageLoaded(src, TRUE, rx, ry)
    \/ \E min \in SampleBounds, max \in SampleBounds, r \in Draws :
          SampleRange(min, max, r)

SpecPlace == InitPlace /\ [][NextPlace]_vars

(***************************************************************************)
(* Layout on its own: a live scene fitted to one of FitViewports, then     *)
(* resize events over FitViewports, the user's label gestures and reset.   *)
(***************************************************************************)
\* what the host reports: the viewports of Spec and of SpecPlace, 800 x 600
\* at ratio 2, the smallest container at ratio 1/2 (a zoomed-out page) and at
\* ratio 4/3
FitViewports ==
    PlaceViewports \cup
    {[rect |-> <<R(800), R(600)>>, dpr |-> R(2)],
     [rect |-> <<R(320), R(360)>>, dpr |-> Rat(1, 2)],
     [rect |-> <<R(320), R(360)>>, dpr |-> Rat(4, 3)]}

InitFit ==
    /\ InitPage
    /\ disposed = FALSE
    /\ cleanupSet = TRUE
    /\ pc = "done"
    /\ gate = [f \in Fonts |-> "settled"]
    /\ isDark \in BOOLEAN
    /\ initIsDark = FALSE
    /\ preset = "ux"
    /\ ready = TRUE
    /\ canvasRef = TRUE /\ bgRef = TRUE /\ titleRef = TRUE
    /\ subtitleRef = TRUE /\ layoutRef = TRUE
    /\ \E v \in FitViewports :
          /\ wrapRect = v.rect
          /\ devicePixelRatio = v.dpr
          /\ canvas = BuildScene(TRUE, v.rect, v.dpr, isDark)
          /\ calls = InitCalls(TRUE, v.rect, v.dpr, isDark)
    /\ listeners = 1
    /\ pending = [a \in AssetIds |-> 0]
    /\ downloaded = NoFrame
    /\ lastOp = "init"
    /\ sample = NoSample

NextFit ==
    \/ \E v \in FitViewports : Resize(v)
    \/ UserTransformLabels
    \/ reset
    \/ \E k \in PresetKeys : applyPreset(k)

SpecFit == InitFit /\ [][NextFit]_vars

(***************************************************************************)
(* Image loads that may fail to decode.  fabric.Image.fromURL wraps        *)
(* whatever the loader produced in a fabric.Image before it calls the      *)
(* callback: on a failed decode the callback receives an image object of   *)
(* size 0 x 0, or, in builds whose fabric.Image reads the size of the      *)
(* missing element, the wrapping throws and the callback is never called.  *)
(***************************************************************************)
\* the wrapping throws inside fabric's error handler: the load is over and
\* the callback of addImageToCanvas has not run
ImageLoadThrows(src) ==
    /\ pending[src] > 0
    /\ pending' = [pending EXCEPT ![src] = @ - 1]
    /\ lastOp' = "imageError"
    /\ UNCHANGED pageVars
    /\ calls' = <<>>
    /\ downloaded' = NoFrame
    /\ UNCHANGED <<sample, mountVars, isDark, initIsDark, preset, refs, envVars,
                   canvas>>

NextDecode ==
    \/ \E src \in AssetIds, ok \in BOOLEAN, d \in DrawPairs :
          ImageLoaded(src, ok, d[1], d[2])
    \/ \E src \in AssetIds : ImageLoadThrows(src)
    \/ \E src \in SceneAssets : addImageToCanvas(src)
    \/ reset

SpecDecode == InitPlace /\ [][NextDecode]_vars

(***************************************************************************)
(* Mount on its own, with the scheduling the host guarantees: a timer that *)
(* was set fires, and a continuation whose promise has settled runs.       *)
(***************************************************************************)
NextMount ==
    \/ \E f \in Fonts : FontLoadSettles(f)
    \/ \E f \in Fonts : FontTimeout(f)
    \/ InitResume
    \/ Unmount
    \/ \E v \in Viewports : Resize(v)
    \/ ThemeChange

\* InitResume is enabled exactly when init waits at a settled gate, and it
\* disables itself (pc becomes "done"): its weak fairness, WF_vars(InitResume),
\* is that init does not wait at a settled gate for ever
InitAwaitsSettledGate == pc = "await" /\ GateSettled

SpecMount ==
    /\ Init
    /\ [][NextMount]_vars
    /\ \A f \in Fonts : WF_vars(FontTimeout(f))
    /\ []<>~InitAwaitsSettledGate

(***************************************************************************)
(* The page around the hero: wheel navigation between Hero and About.     *)
(***************************************************************************)
WheelThreshold == 56
WheelLockMs == 650

\* event.deltaY of the wheel events the page receives: a notch of a mouse
\* wheel either way, touchpad increments either way, and a horizontal scroll
WheelDeltas == {-120, -20, -3, 0, 3, 20, 120}

moveToNext(about) == IF ~about THEN TRUE ELSE about

moveToPrev(about) == IF about THEN FALSE ELSE about

\* a handler that never looks at the lock
WheelLocked_Never == FALSE

\* if (wheelLockRef.current) return
WheelLocked == wheelLockRef

heroVars ==
    <<disposed, cleanupSet, pc, gate, isDark, initIsDark, preset, ready,
      canvasRef, bgRef, titleRef, subtitleRef, layoutRef, canvas, listeners,
      wrapRect, devicePixelRatio, pending, sample>>

handleWheelCapture(deltaY) ==
    /\ lastOp' = "wheel"
    /\ IF WheelLocked
       THEN UNCHANGED pageVars
       ELSE LET accum == wheelAccumRef + deltaY
                next == IF accum > 0 THEN moveToNext(showAbout) ELSE showAbout
                prev == IF accum < 0 THEN moveToPrev(showAbout) ELSE next
            IN  IF Abs(accum) < WheelThreshold
                THEN /\ wheelAccumRef' = accum
                     /\ UNCHANGED <<showAbout, wheelLockRef, wheelTimers>>
                ELSE /\ showAbout' = prev
                     /\ wheelAccumRef' = 0
                     /\ wheelLockRef' = TRUE
                     /\ wheelTimers' = Append(wheelTimers, WheelLockMs)
    /\ calls' = <<>>
    /\ downloaded' = NoFrame
    /\ UNCHANGED heroVars

\* the timer set by handleWheelCapture fires
WheelTimerFires ==
    /\ wheelTimers # <<>>
    /\ lastOp' = "wheelTimer"
    /\ wheelTimers' = Tail(wheelTimers)
    /\ wheelLockRef' = FALSE
    /\ calls' = <<>>
    /\ downloaded' = NoFrame
    /\ UNCHANGED <<showAbout, wheelAccumRef, heroVars>>

\* a click on the header's logo
LogoClick ==
    /\ lastOp' = "logo"
    /\ showAbout' = moveToPrev(showAbout)
    /\ calls' = <<>>
    /\ downloaded' = NoFrame
    /\ UNCHANGED <<wheelLockRef, wheelAccumRef, wheelTimers, heroVars>>

\* a click on the hero's Scroll Down button
ScrollDownClick ==
    /\ lastOp' = "scrollDown"
    /\ showAbout' = moveToNext(showAbout)
    /\ calls' = <<>>
    /\ downloaded' = NoFrame
    /\ UNCHANGED <<wheelLockRef, wheelAccumRef, wheelTimers, heroVars>>

NextWheel ==
    \/ \E deltaY \in WheelDeltas : handleWheelCapture(deltaY)
    \/ WheelTimerFires
    \/ LogoClick
    \/ ScrollDownClick

SpecWheel == Init /\ [][NextWheel]_vars

(***************************************************************************)
(* The claims.                                                             *)
(***************************************************************************)
Occurrences(objs, id) == Cardinality({i \in DOMAIN objs : objs[i] = id})

CountKind(c, kind) ==
    Cardinality({i \in DOMAIN c.objects : c.props[c.objects[i]].kind = kind})

\* C1: while the scene is live, the scene seen between events holds exactly
\* one Background rectangle, exactly one title label and exactly one subtitle
\* label, whatever events came before.
C1_OneBackgroundTwoLabels ==
    Live =>
        /\ CountKind(canvas, "rect") = 1
        /\ Occurrences(canvas.objects, BgId) = 1
        /\ CountKind(canvas, "textbox") = 2
        /\ Occurrences(canvas.objects, TitleId) = 1
        /\ Occurrences(canvas.objects, SubtitleId) = 1

\* a live scene with two images on it, just after an export
C1_Witness ==
    Live /\ lastOp = "exportPNG" /\ Cardinality(SpritesOn(canvas)) >= 2

\* C2: while the scene is live, the Background is the bottommost object, the
\* title and the subtitle are the two topmost, and every image lies between.
C2_BackgroundBottomLabelsTop ==
    Live =>
        LET objs == canvas.objects
            n == Len(objs)
        IN  /\ n >= 3
            /\ objs[1] = BgId
            /\ {objs[n - 1], objs[n]} = {TitleId, SubtitleId}
            /\ \A i \in 2..(n - 2) : canvas.props[objs[i]].kind = "image"

\* a live scene just after the second of two image loads completed
C2_Witness ==
    Live /\ lastOp = "imageLoaded" /\ Cardinality(SpritesOn(canvas)) >= 2

PublicOpStep ==
    \/ \E k \in PresetKeys : applyPreset(k)
    \/ reset
    \/ exportPNG
    \/ \E src \in AssetIds : addImageToCanvas(src)

\* C3: a public operation (applyPreset, reset, exportPNG, addImageToCanvas)
\* invoked while the scene is absent changes nothing: not the canvas, not the
\* selected preset, no load is started and no download is triggered.
C3_AbsentOpsAreNoOps ==
    [][(~Live /\ PublicOpStep) =>
          /\ canvas' = canvas
          /\ preset' = preset
          /\ pending' = pending
          /\ downloaded' = NoFrame]_vars

EarlyUnmount == disposed /\ ~canvas.made

NothingSet ==
    /\ canvas = NoCanvas
    /\ ~canvasRef /\ ~bgRef /\ ~titleRef /\ ~subtitleRef /\ ~layoutRef
    /\ listeners = 0
    /\ ~ready

\* C4: once the view is unmounted with the font gate still pending, no later
\* step (the gate settling and init resuming included) creates a canvas, sets
\* a handle, subscribes to resize or sets ready.
C4_LateInitDoesNothing ==
    /\ [](EarlyUnmount => NothingSet)
    /\ [][EarlyUnmount => EarlyUnmount']_vars

\* init has resumed after an unmount that came while the gate was pending
C4_Witness ==
    disposed /\ ~cleanupSet /\ pc = "done" /\ lastOp = "init"

\* the canonical label geometry for a visible size: the padding, the top
\* offset and the width left between the paddings
CanonPadX(vis) == RMax(R(48), RFloor(RMul(vis.width, Rat(8, 100))))
CanonTop(vis) == RMax(R(72), RFloor(RMul(vis.height, Rat(18, 100))))
CanonInner(vis) == RFloor(RSub(vis.width, RMul(R(2), CanonPadX(vis))))

\* C5: right after reset on a live scene the object list is exactly
\* Background, title, subtitle with the Background untouched; both labels
\* carry the default "ux" text, the fill of the current theme, angle 0,
\* scale 1 and the canonical position for the current visible size; the
\* selected preset is "ux"; nothing is selected; and resetting again changes
\* nothing.
C5_ResetRestoresDefaults ==
    [][(Live /\ reset) =>
          LET vis == getVisibleCanvasSize(canvas')
              t == canvas'.props[TitleId]
              u == canvas'.props[SubtitleId]
          IN  /\ canvas'.objects = <<BgId, TitleId, SubtitleId>>
              /\ DOMAIN canvas'.props = {BgId, TitleId, SubtitleId}
              /\ canvas'.props[BgId] = canvas.props[BgId]
              /\ t.text = PRESETS["ux"].title /\ u.text = PRESETS["ux"].subtitle
              /\ t.fill = TitleFill(isDark') /\ u.fill = SubtitleFill(isDark')
              /\ t.angle = R(0) /\ t.scaleX = R(1) /\ t.scaleY = R(1)
              /\ u.angle = R(0) /\ u.scaleX = R(1) /\ u.scaleY = R(1)
              /\ t.left = CanonPadX(vis) /\ t.top = CanonTop(vis)
              /\ u.left = CanonPadX(vis) /\ u.top = RAdd(CanonTop(vis), R(70))
              /\ t.width = RMin(R(980), CanonInner(vis))
              /\ u.width = RMin(R(900), CanonInner(vis))
              /\ preset' = "ux"
              /\ canvas'.active = None
              /\ ResetScene(canvas', isDark', layoutRef') = canvas']_vars

\* a live scene just after reset
C5_Witness ==
    Live /\ lastOp = "reset" /\ canvas.objects = <<BgId, TitleId, SubtitleId>>

\* the axis-aligned bounds of a center-anchored object
BoxLeft(p) == RSub(p.left, RDiv(RMul(p.width, p.scaleX), R(2)))
BoxRight(p) == RAdd(p.left, RDiv(RMul(p.width, p.scaleX), R(2)))
BoxTop(p) == RSub(p.top, RDiv(RMul(p.height, p.scaleY), R(2)))
BoxBottom(p) == RAdd(p.top, RDiv(RMul(p.height, p.scaleY), R(2)))

\* the bounds of p lie within [m, w - m] x [m, h - m]
Within(p, w, h, m) ==
    /\ RLe(R(m), BoxLeft(p)) /\ RLe(BoxRight(p), RSub(w, R(m)))
    /\ RLe(R(m), BoxTop(p)) /\ RLe(BoxBottom(p), RSub(h, R(m)))

AtLeastMinimum(vis) == RLe(R(320), vis.width) /\ RLe(R(360), vis.height)

HalfW(p) == RDiv(RMul(p.width, p.scaleX), R(2))
HalfH(p) == RDiv(RMul(p.height, p.scaleY), R(2))

\* C7: at the moment an image is placed, for the visible sizes from 320 x 360
\* to 4000 x 3000, the intrinsic sizes and the draws of the model, its center
\* lies in [half + 24, visible - half - 24] on each axis, so its bounds stay
\* within [0, visibleWidth] x [0, visibleHeight]; and randomInRange given a
\* lower bound above the upper bound returns the larger of the two.
C7_PlacementBounds ==
    /\ \A id \in SpritesOn(canvas) :
          LET p == canvas.props[id]
              vis == getVisibleCanvasSize(canvas)
          IN  /\ RLe(RAdd(HalfW(p), R(24)), p.left)
              /\ RLe(p.left, RSub(RSub(vis.width, HalfW(p)), R(24)))
              /\ RLe(RAdd(HalfH(p), R(24)), p.top)
              /\ RLe(p.top, RSub(RSub(vis.height, HalfH(p)), R(24)))
              /\ Within(p, vis.width, vis.height, 0)
    /\ (sample.taken /\ RLt(sample.max, sample.min)) =>
          sample.value = RMax(sample.min, sample.max)
    /\ (sample.taken /\ RLe(sample.min, sample.max)) =>
          RLe(sample.min, sample.value) /\ RLe(sample.value, sample.max)

\* an image placed on the largest visible size, and an inverted range sampled
\* with a draw above zero
C7_Witness ==
    /\ SpritesOn(canvas) # {}
    /\ getVisibleCanvasSize(canvas) = [width |-> R(4000), height |-> R(3000)]
    /\ sample.taken /\ RLt(sample.max, sample.min) /\ sample.r # R(0)

\* C8: applyPreset on a live scene changes only the text of the two labels
\* (with the text dimensions derived from it) and the selected preset: left,
\* top, scale, angle and fill of both labels, the Background, every image,
\* the stacking order and the selection are unchanged.
C8_PresetChangesOnlyText ==
    [][\A k \in PresetKeys :
          (Live /\ applyPreset(k)) =>
              LET t == canvas.props[TitleId]
                  u == canvas.props[SubtitleId]
                  t2 == canvas'.props[TitleId]
                  u2 == canvas'.props[SubtitleId]
              IN  /\ t2.text = PRESETS[k].title /\ u2.text = PRESETS[k].subtitle
                  /\ t2.dimsFor = <<t2.text, t.width>>
                  /\ u2.dimsFor = <<u2.text, u.width>>
                  /\ [t2 EXCEPT !.text = t.text, !.dimsFor = t.dimsFor] = t
                  /\ [u2 EXCEPT !.text = u.text, !.dimsFor = u.dimsFor] = u
                  /\ DOMAIN canvas'.props = DOMAIN canvas.props
                  /\ \A id \in DOMAIN canvas.props \ {TitleId, SubtitleId} :
                        canvas'.props[id] = canvas.props[id]
                  /\ canvas'.objects = canvas.objects
                  /\ canvas'.active = canvas.active
                  /\ canvas'.width = canvas.width /\ canvas'.height = canvas.height
                  /\ canvas'.zoom = canvas.zoom
                  /\ preset' = k]_vars

\* a preset switch on a scene with an image, after the user dragged, scaled
\* and rotated the labels
C8_Witness ==
    /\ Live /\ lastOp = "applyPreset" /\ preset = "interaction"
    /\ canvas.props[TitleId].text = PRESETS["interaction"].title
    /\ canvas.props[TitleId].left = DragTo[1]
    /\ canvas.props[TitleId].angle = DragAngle
    /\ canvas.props[SubtitleId].scaleX = DragScale
    /\ canvas.active = SubtitleId
    /\ SpritesOn(canvas) # {}

\* C9: a flip of isDark on a live scene changes only the fill of the title
\* and of the subtitle, to the pair of the new theme: their text, position,
\* width, scale and angle, the Background, every image, the stacking order,
\* the selected preset and the backing-store size are unchanged.
C9_ThemeChangesOnlyFill ==
    [][(Live /\ ThemeChange) =>
          /\ canvas'.props[TitleId].fill = TitleFill(isDark')
          /\ canvas'.props[SubtitleId].fill = SubtitleFill(isDark')
          /\ [canvas' EXCEPT !.props[TitleId].fill = canvas.props[TitleId].fill,
                             !.props[SubtitleId].fill = canvas.props[SubtitleId].fill]
                 = canvas
          /\ preset' = preset]_vars

\* a theme flip on a scene with an image and a non-default preset, after the
\* user dragged, scaled and rotated the labels
C9_Witness ==
    /\ Live /\ lastOp = "theme" /\ preset = "performance"
    /\ canvas.props[TitleId].left = DragTo[1]
    /\ canvas.props[SubtitleId].angle = DragAngle
    /\ SpritesOn(canvas) # {}

\* C10: the number of resize subscriptions is 1 while the scene is live and 0
\* otherwise; it changes only by init subscribing once and by unmount
\* unsubscribing once; and a resize delivered after unmount mutates nothing.
C10_OneResizeSubscription ==
    /\ [](listeners = IF Live THEN 1 ELSE 0)
    /\ [][listeners' # listeners =>
             \/ InitResume /\ listeners = 0 /\ listeners' = 1
             \/ Unmount /\ listeners = 1 /\ listeners' = 0]_vars
    /\ [][(disposed /\ \E v \in Viewports : Resize(v)) =>
             /\ canvas' = canvas
             /\ UNCHANGED <<refs, mountVars, preset, pending, isDark>>]_vars

\* a resize delivered after the unmount of a scene that had been live
C10_Witness ==
    /\ disposed /\ cleanupSet /\ canvas.disposed
    /\ listeners = 0 /\ lastOp = "resize"

\* the device pixel ratio as the host reports it (1 when it reports none),
\* capped at 2
ClaimedRatio == RMin(IF devicePixelRatio = R(0) THEN R(1) ELSE devicePixelRatio, R(2))

ClaimedVisible ==
    [width |-> RMax(R(320), RFloor(wrapRect[1])),
     height |-> RMax(R(360), RFloor(wrapRect[2]))]

\* C11: for every container rectangle and every device pixel ratio, after a
\* fit the visible size is (max(320, floor(w)), max(360, floor(h))), the
\* backing store is floor(visible x min(dpr, 2)) and at least 320 x 360, and
\* the zoom is the capped ratio.
C11_FitNumerics ==
    Live =>
        /\ getVisibleCanvasSize(canvas) = ClaimedVisible
        /\ canvas.width = RFloor(RMul(ClaimedVisible.width, ClaimedRatio))
        /\ canvas.height = RFloor(RMul(ClaimedVisible.height, ClaimedRatio))
        /\ RLe(R(320), canvas.width) /\ RLe(R(360), canvas.height)
        /\ canvas.zoom = ClaimedRatio

Has(seq, x) == \E i \in DOMAIN seq : seq[i] = x

\* C12: a fit whose computed physical size equals the current backing-store
\* size neither reallocates the backing store nor sets the zoom; the
\* Background cover and the text placement are redone on every fit.
C12_ReallocOnlyOnChange ==
    [][\A v \in FitViewports :
          (Live /\ Resize(v)) =>
              /\ (canvas'.width = canvas.width /\ canvas'.height = canvas.height) =>
                    /\ ~Has(calls', "el.width=") /\ ~Has(calls', "el.height=")
                    /\ ~Has(calls', "c.setWidth") /\ ~Has(calls', "c.setHeight")
                    /\ ~Has(calls', "c.setZoom")
              /\ Has(calls', "bg.set")
              /\ Has(calls', "title.set") /\ Has(calls', "subtitle.set")]_vars

\* C13: after exportPNG on a live scene, in either theme, the object list
\* (membership and order) and every object are as before the call; the
\* captured frame is the scene with one extra rectangle at the very bottom,
\* at (0, 0), of the visible (not the physical) size, filled #0B1020 when
\* dark and #F4F7FB when light; nothing was selected at capture.
C13_ExportFrame ==
    [][(Live /\ exportPNG) =>
          LET vis == getVisibleCanvasSize(canvas)
              f == downloaded'
          IN  /\ canvas'.objects = canvas.objects
              /\ canvas'.props = canvas.props
              /\ f.taken
              /\ f.objects = <<ExportBgId>> \o canvas.objects
              /\ \A id \in DOMAIN canvas.props : f.props[id] = canvas.props[id]
              /\ f.props[ExportBgId].kind = "rect"
              /\ f.props[ExportBgId].left = R(0) /\ f.props[ExportBgId].top = R(0)
              /\ f.props[ExportBgId].width = vis.width
              /\ f.props[ExportBgId].height = vis.height
              /\ f.props[ExportBgId].fill = (IF isDark THEN "#0B1020" ELSE "#F4F7FB")
              /\ f.active = None]_vars

\* a dark-theme export of a scene with an image selected, on a canvas whose
\* backing store is larger than its visible size
C13_Witness ==
    /\ Live /\ lastOp = "exportPNG" /\ isDark
    /\ downloaded.taken
    /\ downloaded.props[ExportBgId].fill = "#0B1020"
    /\ \E id \in SpriteIds : Has(downloaded.objects, id)
    /\ canvas.zoom # R(1)

IndexOf(seq, x) == CHOOSE i \in DOMAIN seq : seq[i] = x

IsRenderRequest(x) == x \in {"requestRenderAll", "renderOnAddRemove"}

\* C14: during exportPNG no render is requested between the insertion of the
\* temporary rectangle and the capture, nor between the capture and the
\* removal of the rectangle.
C14_NoRenderAroundCapture ==
    (lastOp = "exportPNG" /\ downloaded.taken) =>
        LET inserted == IndexOf(calls, "c.add(exportBg)")
            captured == IndexOf(calls, "c.toDataURL")
            removed == IndexOf(calls, "c.remove(exportBg)")
        IN  /\ inserted < captured /\ captured < removed
            /\ \A i \in (inserted + 1)..(captured - 1) : ~IsRenderRequest(calls[i])
            /\ \A i \in (captured + 1)..(removed - 1) : ~IsRenderRequest(calls[i])

\* C15: after mount, unless the view is unmounted, the font gate completes
\* and the scene becomes ready, whether each of the two font loads resolves,
\* rejects, never settles or the font API is absent; a rejection never
\* leaves the gate as an error.
C15_GateCompletes ==
    /\ [](\A f \in Fonts : gate[f] \in {"loading", "settled"})
    /\ <>(ready \/ disposed)

\* the gate has completed on a mounted view, the last font load having
\* rejected, and init is about to resume
C15_Witness ==
    ~disposed /\ pc = "await" /\ GateSettled /\ lastOp = "rejected"

\* the order of the calls of init
InitOrder ==
    /\ IndexOf(calls, "new fabric.Canvas") < IndexOf(calls, "new fabric.Textbox(title)")
    /\ IndexOf(calls, "c.add(bg)") < IndexOf(calls, "fitCanvasToWrap")
    /\ IndexOf(calls, "c.add(title)") < IndexOf(calls, "fitCanvasToWrap")
    /\ IndexOf(calls, "c.add(subtitle)") < IndexOf(calls, "fitCanvasToWrap")
    /\ IndexOf(calls, "fitCanvasToWrap") < IndexOf(calls, "c.setWidth")
    /\ IndexOf(calls, "bg.set") < IndexOf(calls, "addEventListener")
    /\ IndexOf(calls, "subtitle.set") < IndexOf(calls, "addEventListener")
    /\ IndexOf(calls, "addEventListener") < IndexOf(calls, "setReady")

\* C16: the canvas and the text objects are created only after both font
\* gates have settled; the initial fit runs after the Background and both
\* labels exist; the resize subscription is made after the initial fit; ready
\* is set after all of these; so whenever ready is true on a mounted view
\* the canvas, Background, title and subtitle handles are present.
C16_MountOrder ==
    /\ []((ready /\ ~disposed) => (canvasRef /\ bgRef /\ titleRef /\ subtitleRef))
    /\ []((lastOp = "init" /\ ready) => InitOrder)
    /\ [][(~canvas.made /\ canvas'.made) =>
             \A f \in Fonts : gate[f] = "settled"]_vars
    /\ [][(~ready /\ ready') =>
             /\ canvas'.made /\ listeners' = 1
             /\ canvas'.objects = <<BgId, TitleId, SubtitleId>>]_vars

\* init has just completed on a mounted view
C16_Witness ==
    /\ ready /\ ~disposed /\ lastOp = "init"
    /\ Has(calls, "setReady") /\ canvas.made /\ listeners = 1

Geometry(p) == <<p.left, p.top, p.width>>

\* C17: the layout step is idempotent and independent of history: a second
\* fit, or a second text placement, with the container and the device pixel
\* ratio unchanged leaves backing-store size, zoom, Background geometry and
\* the left, top and width of both labels as the first left them, and the
\* labels end where they end on a freshly built scene, wherever the user had
\* dragged them.
C17_LayoutIdempotent ==
    [][\A v \in FitViewports :
          (Live /\ Resize(v)) =>
              LET again == fitCanvasToWrap(canvas', TRUE, v.rect, v.dpr)
                  fresh == BuildScene(TRUE, v.rect, v.dpr, isDark)
              IN  /\ again = canvas'
                  /\ placeTextObjects(canvas') = canvas'
                  /\ <<canvas'.width, canvas'.height, canvas'.zoom>> =
                         <<fresh.width, fresh.height, fresh.zoom>>
                  /\ canvas'.props[BgId] = fresh.props[BgId]
                  /\ Geometry(canvas'.props[TitleId]) = Geometry(fresh.props[TitleId])
                  /\ Geometry(canvas'.props[SubtitleId]) =
                         Geometry(fresh.props[SubtitleId])]_vars

\* a fit after the user dragged, scaled and rotated the labels: the scale and
\* the angle are the user's, the position is not
C17_Witness ==
    /\ Live /\ lastOp = "resize"
    /\ canvas.props[TitleId].angle = DragAngle
    /\ canvas.props[SubtitleId].scaleX = DragScale
    /\ canvas.props[TitleId].left # DragTo[1]

\* the label texts are the pair of the selected preset
TextsOfPreset ==
    /\ canvas.props[TitleId].text = PRESETS[preset].title
    /\ canvas.props[SubtitleId].text = PRESETS[preset].subtitle

\* C18: on a live scene, after any sequence of applyPreset calls the label
\* texts are exactly the title and subtitle of the last role applied and the
\* selected preset is that role: applying a role twice is applying it once,
\* applying a, b, a restores a's strings, and no event between two
\* applyPreset calls makes the texts and the selected preset disagree.
C18_PresetRoundTrip ==
    /\ []((Live /\ lastOp = "applyPreset") => TextsOfPreset)
    /\ [][(Live /\ TextsOfPreset /\ Live') => TextsOfPreset']_vars
    /\ [][\A k \in PresetKeys :
             (Live /\ applyPreset(k)) =>
                 /\ preset' = k
                 /\ PresetText(canvas', k) = canvas']_vars

\* a role other than the default applied on a live scene with an image on it
C18_Witness ==
    /\ Live /\ lastOp = "applyPreset" /\ preset = "performance"
    /\ canvas.props[SubtitleId].text = PRESETS["performance"].subtitle
    /\ SpritesOn(canvas) # {}

\* C20: for every visible size W >= 320, H >= 360 the text placement puts the
\* title at (padX, top) with width min(980, floor(W - 2 padX)) and the
\* subtitle at (padX, top + 70) with width min(900, floor(W - 2 padX)), where
\* padX = max(48, floor(0.08 W)) and top = max(72, floor(0.18 H)); both
\* widths are at least 0 and at most their caps.
C20_TextPlacement ==
    (Live /\ lastOp \in {"init", "resize", "reset"}
          /\ AtLeastMinimum(getVisibleCanvasSize(canvas))) =>
        LET vis == getVisibleCanvasSize(canvas)
            t == canvas.props[TitleId]
            u == canvas.props[SubtitleId]
        IN  /\ t.left = CanonPadX(vis) /\ t.top = CanonTop(vis)
            /\ u.left = CanonPadX(vis) /\ u.top = RAdd(CanonTop(vis), R(70))
            /\ t.width = RMin(R(980), CanonInner(vis))
            /\ u.width = RMin(R(900), CanonInner(vis))
            /\ RLe(R(0), t.width) /\ RLe(t.width, R(980))
            /\ RLe(R(0), u.width) /\ RLe(u.width, R(900))

\* a fit to 800 x 600 at ratio 2: the title is 672 wide, not 980
C20_Witness ==
    /\ Live /\ lastOp = "resize" /\ canvas.zoom = R(2)
    /\ getVisibleCanvasSize(canvas) = [width |-> R(800), height |-> R(600)]
    /\ canvas.props[TitleId].left = R(64)
    /\ canvas.props[TitleId].width = R(672)

\* C19: when an image resource fails to decode, the image-load callback
\* leaves the scene unchanged: no object is added, and the stacking order,
\* the selection and every existing object are untouched.
C19_DecodeFailureIsNoOp ==
    [][\A src \in AssetIds, d \in DrawPairs :
          ImageLoaded(src, FALSE, d[1], d[2]) => canvas' = canvas]_vars

\* C21: for every intrinsic image size and visible size W x H the scale of a
\* placed image is min(0.32 W / iw, 0.32 H / ih, 1): never above 1, the same
\* on both axes, and the rendered size is at most 32% of W and 32% of H; a
\* 4000 x 3000 image on 800 x 600 gets scale 0.064 and is rendered 256 x 192.
C21_SpriteScale ==
    \A id \in SpritesOn(canvas) :
        LET p == canvas.props[id]
            vis == getVisibleCanvasSize(canvas)
            byWidth == RDiv(RMul(Rat(32, 100), vis.width), p.width)
            byHeight == RDiv(RMul(Rat(32, 100), vis.height), p.height)
        IN  /\ p.scaleX = RMin(RMin(byWidth, byHeight), R(1))
            /\ p.scaleY = p.scaleX
            /\ RLe(p.scaleX, R(1)) /\ RLt(R(0), p.scaleX)
            /\ RLe(RMul(p.width, p.scaleX), RMul(Rat(32, 100), vis.width))
            /\ RLe(RMul(p.height, p.scaleY), RMul(Rat(32, 100), vis.height))
            /\ (vis = [width |-> R(800), height |-> R(600)]
                  /\ p.width = R(4000) /\ p.height = R(3000)) =>
                   /\ p.scaleX = Rat(64, 1000)
                   /\ RMul(p.width, p.scaleX) = R(256)
                   /\ RMul(p.height, p.scaleY) = R(192)

\* the 4000 x 3000 image placed on a visible 800 x 600, scaled to 256 x 192
C21_Witness ==
    \E id \in SpritesOn(canvas) :
        /\ getVisibleCanvasSize(canvas) = [width |-> R(800), height |-> R(600)]
        /\ canvas.props[id].width = R(4000) /\ canvas.props[id].height = R(3000)
        /\ canvas.props[id].scaleX = Rat(8, 125)

\* C22: a placement that completes on a live Scene adds exactly one new
\* ImageSprite and makes it the active object; every object that was there
\* (sprites, labels, Background) keeps all its properties and the old objects
\* keep their relative z-order; placing the same resource again adds one
\* more sprite, distinct from the earlier ones.
C22_PlacementFrame ==
    [][(canvasRef /\ lastOp' = "imageLoaded") =>
          LET old == Range(canvas.objects)
              new == Range(canvas'.objects) \ old
          IN  /\ Cardinality(new) = 1
              /\ Len(canvas'.objects) = Len(canvas.objects) + 1
              /\ \A id \in new :
                    /\ canvas'.props[id].kind = "image"
                    /\ canvas'.active = id
                    /\ Occurrences(canvas'.objects, id) = 1
              /\ \A id \in old : canvas'.props[id] = canvas.props[id]
              /\ SelectSeq(canvas'.objects, LAMBDA x : x \in old) = canvas.objects
              /\ Cardinality(SpritesOn(canvas')) = Cardinality(SpritesOn(canvas)) + 1
       ]_vars

\* the same resource placed twice on a live Scene: two sprites, the later active
C22_Witness ==
    /\ canvasRef /\ lastOp = "imageLoaded"
    /\ Cardinality(SpritesOn(canvas)) = 2
    /\ \E id \in SpritesOn(canvas) :
          /\ canvas.active = id
          /\ \A other \in SpritesOn(canvas) :
                /\ canvas.props[other].width = Assets["photo"].width
                /\ canvas.props[other].height = Assets["photo"].height

\* C23: no operation touches a canvas after it has been disposed: once the
\* canvas is disposed no step adds an object to it, changes its selection or
\* changes anything else of it; in particular an image load that completes
\* after unmount leaves the torn-down canvas as it was.
C23_DisposedCanvasUntouched ==
    [][canvas.disposed => canvas' = canvas]_vars

\* C24: whenever the Scene is live, the fill of the title and of the subtitle
\* is the fixed color of the current isDark, however theme toggles interleave
\* with the mount sequence.
C24_FillFollowsTheme ==
    Live =>
        /\ canvas.props[TitleId].fill = (IF isDark THEN "rgba(255,255,255,0.96)"
                                          ELSE "rgba(18,22,31,0.95)")
        /\ canvas.props[SubtitleId].fill = (IF isDark THEN "rgba(255,255,255,0.8)"
                                             ELSE "rgba(18,22,31,0.72)")

\* C25: in the page's wheel navigation, a wheel event delivered while the
\* lock is held changes neither the accumulated delta nor the shown section;
\* a wheel event changes the section only if it brings the absolute
\* accumulated deltaY to at least 56; every such event resets the accumulator
\* to 0, takes the lock and sets the 650 ms timer; the lock is released only
\* by that timer, so a wheel event that changes the section is never
\* delivered inside a lock window.
C25_WheelLock ==
    [][/\ \A deltaY \in WheelDeltas :
             handleWheelCapture(deltaY) =>
                 /\ wheelLockRef =>
                        wheelAccumRef' = wheelAccumRef /\ showAbout' = showAbout
                 /\ showAbout' # showAbout =>
                        /\ ~wheelLockRef
                        /\ Abs(wheelAccumRef + deltaY) >= 56
                 /\ (~wheelLockRef /\ Abs(wheelAccumRef + deltaY) >= 56) =>
                        /\ wheelAccumRef' = 0
                        /\ wheelLockRef'
                        /\ wheelTimers' = <<650>>
                 /\ (~wheelLockRef /\ Abs(wheelAccumRef + deltaY) < 56) =>
                        /\ wheelAccumRef' = wheelAccumRef + deltaY
                        /\ showAbout' = showAbout /\ ~wheelLockRef'
       /\ (wheelLockRef /\ ~wheelLockRef') =>
             lastOp' = "wheelTimer" /\ wheelTimers = <<650>>
       /\ (lastOp' = "wheel" /\ showAbout' # showAbout) =>
             ~wheelLockRef /\ wheelLockRef'
      ]_vars

\* a wheel event has just moved the page to About and taken the lock
C25_Witness ==
    /\ lastOp = "wheel"
    /\ showAbout /\ wheelLockRef /\ wheelAccumRef = 0
    /\ wheelTimers = <<650>>

====
